---- MODULE Spec2Model ----
(***************************************************************************)
(* RefreshableCache (index.js): a key-value cache whose items carry an     *)
(* optional expiration timeout and an optional periodic refresh interval.  *)
(*                                                                         *)
(* The cache lives on the single JavaScript thread: a method call and a    *)
(* timer callback each run to completion, so each is one action.  Time is  *)
(* a logical millisecond clock; a timer is due when its callAt has been    *)
(* reached, and the clock does not pass a due timer (it fires, or it is    *)
(* cancelled, before the next millisecond starts).  Method calls may run   *)
(* at any instant, also at an instant where a timer is due and has not     *)
(* fired yet.  Timers due at the same instant fire in either order.        *)
(***************************************************************************)
EXTENDS Integers, Sequences, FiniteSets, TLC

(***************************************************************************)
(* Bounds of the model.                                                    *)
(***************************************************************************)
MaxTime == 4

(***************************************************************************)
(* JavaScript values.  Stored values and keys are opaque tokens; the       *)
(* duration, refreshInterval and shouldResetExpiry arguments are tagged    *)
(* so that `typeof`, isNaN and <= can be evaluated as the code does.       *)
(***************************************************************************)
Undefined == [kind |-> "undefined", n |-> 0]
Num(n) == [kind |-> "number", n |-> n]
Bool(b) == [kind |-> "boolean", n |-> IF b THEN 1 ELSE 0]

Keys == {"a", "b"}
\* keys of which two are array indices (canonical numeric strings)
OrderKeys == {"a", "1", "2"}
Values == {"v1", "v2"}
Null == "null"
NaN == [kind |-> "NaN", n |-> 0]
Str == [kind |-> "string", n |-> 0]
\* Infinity is a number that is not NaN and is greater than 0; n is the delay
\* the runtime's timers run it with (a delay above 2^31 - 1 is run as 1).
Infinity == [kind |-> "Infinity", n |-> 1]
TimeArgs == {Undefined, Num(0), Num(1), Num(2)}
PutArgs == TimeArgs \cup {Str, NaN, Num(-1), Infinity}
FlagArgs == {Undefined, Bool(TRUE), Bool(FALSE), Num(1)}

\* the values put is given in the specification of stored values
StoredValues == {"v1", Null, "undefined", "false"}

\* Key arguments: a property of _cache is named by the string the key converts
\* to, so _cache[1] and _cache['1'] are one property.
StringKey(text) == [type |-> "string", n |-> 0, text |-> text]
NumberKey(n) == [type |-> "number", n |-> n, text |-> ""]
KeyArgs == {StringKey("a"), StringKey("1"), NumberKey(1)}
ToPropertyKey(key) == IF key.type = "number" THEN ToString(key.n) ELSE key.text

\* typeof x
TypeOf(x) == IF x.kind = "NaN" \/ x.kind = "Infinity" THEN "number" ELSE x.kind

isNaN(x) == x.kind = "NaN" \/ x.kind = "string" \/ x.kind = "undefined"

(***************************************************************************)
(* A timer handle is the runtime's timer object; the closure it runs       *)
(* captured `key`.  A record property that never held a handle reads as    *)
(* undefined (NoTimer); clearing undefined is a no-op.                     *)
(***************************************************************************)
NoTimer == [kind |-> "undefined", key |-> "", callAt |-> 0, delay |-> 0, active |-> FALSE]

VARIABLES _cache, _resetExpiryOnAccess, unreferenced, now, emitted, returned,
          other, expiring

vars == <<_cache, _resetExpiryOnAccess, unreferenced, now, emitted, returned,
          other, expiring>>

(***************************************************************************)
(* _cache is an object with a null prototype: its own properties, in the   *)
(* order Object.keys lists them.                                           *)
(***************************************************************************)
keys == [i \in 1..Len(_cache) |-> _cache[i].key]

size == Len(keys)

Has(key) == \E i \in 1..Len(_cache) : _cache[i].key = key

IndexOf(key) == CHOOSE i \in 1..Len(_cache) : _cache[i].key = key

\* _cache[key] for a key that is present
Record(key) == _cache[IndexOf(key)]

\* slip: the delete replaces the cache by an empty one
WithoutAny(cache, key) == <<>>

\* delete cache[key]
RECURSIVE Without(_, _)
Without(cache, key) ==
    IF cache = <<>> THEN <<>>
    ELSE IF Head(cache).key = key THEN Without(Tail(cache), key)
    ELSE <<Head(cache)>> \o Without(Tail(cache), key)

\* the array index a property key is, or -1 for a key that is not one
ArrayIndex(key) == CASE key = "1" -> 1 [] key = "2" -> 2 [] OTHER -> -1

\* A new own property: array indices are listed first, in ascending numeric
\* order, then the other keys in the order they were created.
Insert(cache, record) ==
    IF ArrayIndex(record.key) >= 0
    THEN LET Before(r) == ArrayIndex(r.key) >= 0 /\ ArrayIndex(r.key) < ArrayIndex(record.key)
             After(r) == ~Before(r)
         IN  SelectSeq(cache, Before) \o <<record>> \o SelectSeq(cache, After)
    ELSE Append(cache, record)

\* cache[key] = record
Assign(cache, key, record) ==
    IF \E i \in 1..Len(cache) : cache[i].key = key
    THEN [i \in 1..Len(cache) |-> IF cache[i].key = key THEN record ELSE cache[i]]
    ELSE Insert(cache, record)

(***************************************************************************)
(* Timers of the runtime.                                                  *)
(***************************************************************************)
\* slip: setTimeout is called without its delay argument
setTimeoutNoDelay(key, delay) ==
    [kind |-> "timeout", key |-> key, callAt |-> now, delay |-> delay, active |-> TRUE]

setTimeout(key, delay) ==
    [kind |-> "timeout", key |-> key, callAt |-> now + delay, delay |-> delay, active |-> TRUE]

setInterval(key, delay) ==
    [kind |-> "interval", key |-> key, callAt |-> now + delay, delay |-> delay, active |-> TRUE]

clearTimeout(timer) == IF timer.active THEN [timer EXCEPT !.active = FALSE] ELSE timer

\* slip: the handle passed to clearInterval is read from a misspelt property
clearIntervalOfUndefined(timer) == timer

clearInterval(timer) == IF timer.active THEN [timer EXCEPT !.active = FALSE] ELSE timer

\* A timer that is still scheduled when the last reference to it is dropped
\* stays in the runtime's timer list.
Dropped(timer) == IF timer.active THEN <<timer>> ELSE <<>>

\* The runtime's timer list: where each scheduled timer is held.
Refs ==
    {[in |-> "expirationTimeout", key |-> k, i |-> 0] :
        k \in {key \in {_cache[i].key : i \in 1..Len(_cache)} :
                    Record(key).expirationTimeout.active}}
    \cup
    {[in |-> "refreshInterval", key |-> k, i |-> 0] :
        k \in {key \in {_cache[i].key : i \in 1..Len(_cache)} :
                    Record(key).refreshInterval.active}}
    \cup
    {[in |-> "unreferenced", key |-> unreferenced[i].key, i |-> i] : i \in 1..Len(unreferenced)}

TimerAt(ref) ==
    IF ref.in = "expirationTimeout" THEN Record(ref.key).expirationTimeout
    ELSE IF ref.in = "refreshInterval" THEN Record(ref.key).refreshInterval
    ELSE unreferenced[ref.i]

Timers == {TimerAt(ref) : ref \in Refs}

Due(timer) == timer.callAt <= now

(***************************************************************************)
(* _cache and _resetExpiryOnAccess are variables of the constructor: each  *)
(* instance has its own.  The variables above are those of the instance    *)
(* the caller is using; `other` holds those of a second instance, with the *)
(* timers its closures keep scheduled.  `expiring` is the key of the       *)
(* expiration callback that has emitted and has not yet called del, while  *)
(* the subscribers of 'expiry' run; it is empty otherwise.                 *)
(***************************************************************************)
Closure(cache, flag, timers) ==
    [_cache |-> cache, _resetExpiryOnAccess |-> flag, unreferenced |-> timers]

\* the scheduled timers of the second instance
OtherTimers ==
    {other._cache[i].expirationTimeout :
        i \in {j \in 1..Len(other._cache) : other._cache[j].expirationTimeout.active}}
    \cup
    {other._cache[i].refreshInterval :
        i \in {j \in 1..Len(other._cache) : other._cache[j].refreshInterval.active}}
    \cup
    {other.unreferenced[i] : i \in 1..Len(other.unreferenced)}

\* this.emit(eventName, key, value); emitted holds the events the last step
\* gave to the subscribers, in order
emit(eventName, key, value) == <<[eventName |-> eventName, key |-> key, value |-> value]>>

\* How the last step ended for its caller: `return value`, `throw new
\* Error(message)`, or nothing when the step was not a method call.
Return(value) == [kind |-> "return", value |-> value]
Throw(message) == [kind |-> "throw", value |-> message]
NoCall == [kind |-> "none", value |-> ""]

Init ==
    /\ _cache = <<>>
    /\ _resetExpiryOnAccess = FALSE
    /\ unreferenced = <<>>
    /\ now = 0
    /\ emitted = <<>>
    /\ returned = NoCall
    /\ other = Closure(<<>>, FALSE, <<>>)
    /\ expiring = <<>>

(***************************************************************************)
(* this.get                                                                *)
(***************************************************************************)
\* slip: get restarts the expiration whatever the flag is
getRecordIgnoresFlag(record) ==
    IF record.duration # Undefined
    THEN [record EXCEPT !.expirationTimeout = setTimeout(record.key, record.duration.n)]
    ELSE record

\* slip: get clears the expiration timeout and does not set a new one
getRecordNoRestart(record) ==
    IF record.duration # Undefined /\ _resetExpiryOnAccess
    THEN [record EXCEPT !.expirationTimeout = clearTimeout(record.expirationTimeout)]
    ELSE record

\* the record after `if (typeof record.duration !== 'undefined' && _resetExpiryOnAccess)`
getRecord(record) ==
    IF record.duration # Undefined /\ _resetExpiryOnAccess
    THEN [record EXCEPT !.expirationTimeout = setTimeout(record.key, record.duration.n)]
    ELSE record

\* slip: get does not clear the pending expiration timeout
getDroppedNoClear(record) ==
    IF record.duration # Undefined /\ _resetExpiryOnAccess
    THEN Dropped(record.expirationTimeout)
    ELSE <<>>

\* the timers that statement leaves scheduled without a reference
getDropped(record) ==
    IF record.duration # Undefined /\ _resetExpiryOnAccess
    THEN Dropped(clearTimeout(record.expirationTimeout))
    ELSE <<>>

\* slip: value is not initialised to null
getUndefinedWhenAbsent(key) == IF Has(key) THEN Record(key).value ELSE "undefined"

\* the value get returns
get(key) == IF Has(key) THEN Record(key).value ELSE Null

Get(key) ==
    IF Has(key)
    THEN /\ _cache' = Assign(_cache, key, getRecord(Record(key)))
         /\ unreferenced' = unreferenced \o getDropped(Record(key))
         /\ emitted' = <<>>
         /\ returned' = Return(get(key))
         /\ UNCHANGED <<_resetExpiryOnAccess, now, other, expiring>>
    ELSE /\ emitted' = <<>>
         /\ returned' = Return(get(key))
         /\ UNCHANGED <<_cache, _resetExpiryOnAccess, unreferenced, now, other, expiring>>

(***************************************************************************)
(* this.del                                                                *)
(***************************************************************************)
\* slip: del clears the expiration timeout only
delDroppedNoClearInterval(oldRecord) ==
    Dropped(clearTimeout(oldRecord.expirationTimeout))
        \o Dropped(oldRecord.refreshInterval)

\* the timers of oldRecord that are still scheduled when the record is deleted
delDropped(oldRecord) ==
    Dropped(clearTimeout(oldRecord.expirationTimeout))
        \o Dropped(clearInterval(oldRecord.refreshInterval))

\* slip: del returns true whether or not the key was in the cache
delAlwaysTrue(cache, key) ==
    IF \E i \in 1..Len(cache) : cache[i].key = key
    THEN [cache |-> Without(cache, key),
          dropped |-> delDropped(cache[CHOOSE i \in 1..Len(cache) : cache[i].key = key]),
          wasKeyDeleted |-> TRUE]
    ELSE [cache |-> cache, dropped |-> <<>>, wasKeyDeleted |-> TRUE]

del(cache, key) ==
    IF \E i \in 1..Len(cache) : cache[i].key = key
    THEN [cache |-> Without(cache, key),
          dropped |-> delDropped(cache[CHOOSE i \in 1..Len(cache) : cache[i].key = key]),
          wasKeyDeleted |-> TRUE]
    ELSE [cache |-> cache, dropped |-> <<>>, wasKeyDeleted |-> FALSE]

Del(key) ==
    /\ _cache' = del(_cache, key).cache
    /\ unreferenced' = unreferenced \o del(_cache, key).dropped
    /\ emitted' = <<>>
    /\ returned' = Return(IF del(_cache, key).wasKeyDeleted THEN "true" ELSE "false")
    /\ UNCHANGED <<_resetExpiryOnAccess, now, other, expiring>>

(***************************************************************************)
(* this.put                                                                *)
(***************************************************************************)
\* the test put applies to duration and to refreshInterval
InvalidTime(x) ==
    TypeOf(x) # "undefined" /\ (TypeOf(x) # "number" \/ isNaN(x) \/ x.n <= 0)

\* slip: the fallback object is shared and kept the duration of an earlier put
NewRecordShared(key) ==
    IF Has(key) THEN Record(key)
    ELSE [key |-> key, value |-> "undefined", duration |-> Num(1),
          expirationTimeout |-> NoTimer, refreshInterval |-> NoTimer]

\* oldRecord || {}
NewRecord(key) ==
    IF Has(key) THEN Record(key)
    ELSE [key |-> key, value |-> "undefined", duration |-> Undefined,
          expirationTimeout |-> NoTimer, refreshInterval |-> NoTimer]

\* slip: the value is written only when the record is new
putValueOnce(record, value) ==
    IF record.value = "undefined" THEN [record EXCEPT !.value = value] ELSE record

\* newRecord.value = value
putValue(record, value) == [record EXCEPT !.value = value]

\* slip: the expiration is restarted on every put of a record that has a duration
putExpirationAlways(record, duration) ==
    IF TypeOf(duration) # "undefined"
    THEN [record EXCEPT !.duration = duration,
                        !.expirationTimeout = setTimeout(record.key, duration.n)]
    ELSE IF record.duration # Undefined
    THEN [record EXCEPT !.expirationTimeout = setTimeout(record.key, record.duration.n)]
    ELSE record

\* slip: the duration is recorded only when the record has none yet
putExpirationKeepsFirstDuration(record, duration) ==
    IF TypeOf(duration) # "undefined"
    THEN [record EXCEPT !.duration = (IF record.duration # Undefined THEN record.duration
                                      ELSE duration),
                        !.expirationTimeout = setTimeout(record.key, duration.n)]
    ELSE record

\* slip: setTimeout is called outside the `if`; an undefined delay is run as 1
putExpirationUnguarded(record, duration) ==
    IF TypeOf(duration) # "undefined"
    THEN [record EXCEPT !.duration = duration,
                        !.expirationTimeout = setTimeout(record.key, duration.n)]
    ELSE [record EXCEPT !.expirationTimeout = setTimeout(record.key, 1)]

\* the record after `if (typeof duration !== 'undefined') { ... }`
putExpiration(record, duration) ==
    IF TypeOf(duration) # "undefined"
    THEN [record EXCEPT !.duration = duration,
                        !.expirationTimeout = setTimeout(record.key, duration.n)]
    ELSE record

\* slip: the old expiration timeout is not cleared
putExpirationDroppedNoClear(oldRecord, duration) ==
    IF TypeOf(duration) # "undefined"
    THEN Dropped(oldRecord.expirationTimeout)
    ELSE <<>>

\* the timers that statement leaves scheduled without a reference
putExpirationDropped(oldRecord, duration) ==
    IF TypeOf(duration) # "undefined"
    THEN Dropped(clearTimeout(oldRecord.expirationTimeout))
    ELSE <<>>

\* slip: the old interval is cleared outside the `if`
putRefreshClearsAlways(record, refreshInterval) ==
    IF TypeOf(refreshInterval) # "undefined"
    THEN [record EXCEPT !.refreshInterval = setInterval(record.key, refreshInterval.n)]
    ELSE [record EXCEPT !.refreshInterval = clearInterval(record.refreshInterval)]

\* the record after `if (typeof refreshInterval !== 'undefined') { ... }`
putRefresh(record, refreshInterval) ==
    IF TypeOf(refreshInterval) # "undefined"
    THEN [record EXCEPT !.refreshInterval = setInterval(record.key, refreshInterval.n)]
    ELSE record

\* slip: the old refresh interval is not cleared
putRefreshDroppedNoClear(oldRecord, refreshInterval) ==
    IF TypeOf(refreshInterval) # "undefined"
    THEN Dropped(oldRecord.refreshInterval)
    ELSE <<>>

\* the timers that statement leaves scheduled without a reference
putRefreshDropped(oldRecord, refreshInterval) ==
    IF TypeOf(refreshInterval) # "undefined"
    THEN Dropped(clearInterval(oldRecord.refreshInterval))
    ELSE <<>>

\* slip: refreshInterval is validated after the expiration statement has run
PutValidatesLate(key, value, duration, refreshInterval) ==
    IF InvalidTime(duration)
    THEN /\ emitted' = <<>>
         /\ returned' = Throw("Expiration time must be a positive number")
         /\ UNCHANGED <<_cache, _resetExpiryOnAccess, unreferenced, now, other, expiring>>
    ELSE LET oldRecord == NewRecord(key)
             record == putExpiration(putValue(oldRecord, value), duration)
         IN  IF InvalidTime(refreshInterval)
             THEN /\ _cache' = Assign(_cache, key, record)
                  /\ unreferenced' = unreferenced \o putExpirationDropped(oldRecord, duration)
                  /\ emitted' = <<>>
                  /\ returned' = Throw("Refresh time must be a positive number")
                  /\ UNCHANGED <<_resetExpiryOnAccess, now, other, expiring>>
             ELSE /\ _cache' = Assign(_cache, key, putRefresh(record, refreshInterval))
                  /\ unreferenced' = unreferenced \o putExpirationDropped(oldRecord, duration)
                                                  \o putRefreshDropped(oldRecord, refreshInterval)
                  /\ emitted' = <<>>
                  /\ returned' = Return(value)
                  /\ UNCHANGED <<_resetExpiryOnAccess, now, other, expiring>>

Put(key, value, duration, refreshInterval) ==
    IF InvalidTime(duration)
    THEN /\ emitted' = <<>>
         /\ returned' = Throw("Expiration time must be a positive number")
         /\ UNCHANGED <<_cache, _resetExpiryOnAccess, unreferenced, now, other, expiring>>
    ELSE IF InvalidTime(refreshInterval)
    THEN /\ emitted' = <<>>
         /\ returned' = Throw("Refresh time must be a positive number")
         /\ UNCHANGED <<_cache, _resetExpiryOnAccess, unreferenced, now, other, expiring>>
    ELSE LET oldRecord == NewRecord(key)
             newRecord == putRefresh(putExpiration(putValue(oldRecord, value), duration),
                                     refreshInterval)
         IN  /\ _cache' = Assign(_cache, key, newRecord)
             /\ unreferenced' = unreferenced \o putExpirationDropped(oldRecord, duration)
                                             \o putRefreshDropped(oldRecord, refreshInterval)
             /\ emitted' = <<>>
             /\ returned' = Return(value)
             /\ UNCHANGED <<_resetExpiryOnAccess, now, other, expiring>>

(***************************************************************************)
(* this.clear                                                              *)
(***************************************************************************)
\* slip: clear drops the records without clearing their timers
RECURSIVE clearDroppedNoClear(_)
clearDroppedNoClear(cache) ==
    IF cache = <<>> THEN <<>>
    ELSE Dropped(Head(cache).expirationTimeout) \o Dropped(Head(cache).refreshInterval)
            \o clearDroppedNoClear(Tail(cache))

\* the timers still scheduled after the forEach over this.keys()
RECURSIVE clearDropped(_)
clearDropped(cache) ==
    IF cache = <<>> THEN <<>>
    ELSE delDropped(Head(cache)) \o clearDropped(Tail(cache))

Clear ==
    /\ unreferenced' = unreferenced \o clearDropped(_cache)
    /\ _cache' = <<>>
    /\ emitted' = <<>>
    /\ returned' = Return("undefined")
    /\ UNCHANGED <<_resetExpiryOnAccess, now, other, expiring>>

(***************************************************************************)
(* this.resetExpiryOnAccess                                                *)
(***************************************************************************)
\* slip: an omitted argument is taken as false
ResetExpiryOnAccessDefaultsFalse(shouldResetExpiry) ==
    IF TypeOf(shouldResetExpiry) # "undefined" /\ TypeOf(shouldResetExpiry) # "boolean"
    THEN /\ emitted' = <<>>
         /\ returned' = Throw("Reset expiry on get flag must be a boolean")
         /\ UNCHANGED <<_cache, _resetExpiryOnAccess, unreferenced, now, other, expiring>>
    ELSE /\ _resetExpiryOnAccess' = (shouldResetExpiry.n = 1)
         /\ emitted' = <<>>
         /\ returned' = Return("undefined")
         /\ UNCHANGED <<_cache, unreferenced, now, other, expiring>>

ResetExpiryOnAccess(shouldResetExpiry) ==
    IF TypeOf(shouldResetExpiry) # "undefined" /\ TypeOf(shouldResetExpiry) # "boolean"
    THEN /\ emitted' = <<>>
         /\ returned' = Throw("Reset expiry on get flag must be a boolean")
         /\ UNCHANGED <<_cache, _resetExpiryOnAccess, unreferenced, now, other, expiring>>
    ELSE /\ _resetExpiryOnAccess' =
                (IF TypeOf(shouldResetExpiry) = "undefined" THEN TRUE
                 ELSE shouldResetExpiry.n = 1)
         /\ emitted' = <<>>
         /\ returned' = Return("undefined")
         /\ UNCHANGED <<_cache, unreferenced, now, other, expiring>>

(***************************************************************************)
(* A timer runs.  The runtime takes a timeout off its list before the      *)
(* callback, and schedules an interval again one delay later.              *)
(***************************************************************************)
RemoveAt(seq, i) == SubSeq(seq, 1, i - 1) \o SubSeq(seq, i + 1, Len(seq))

\* the cache once the runtime has marked the timer at ref as run
RunCache(ref, timer) ==
    IF ref.in = "expirationTimeout"
    THEN Assign(_cache, ref.key, [Record(ref.key) EXCEPT !.expirationTimeout = timer])
    ELSE IF ref.in = "refreshInterval"
    THEN Assign(_cache, ref.key, [Record(ref.key) EXCEPT !.refreshInterval = timer])
    ELSE _cache

RunUnreferenced(ref, timer) ==
    IF ref.in = "unreferenced"
    THEN IF timer.active THEN [unreferenced EXCEPT ![ref.i] = timer]
         ELSE RemoveAt(unreferenced, ref.i)
    ELSE unreferenced

(***************************************************************************)
(* The callback of an expiration timeout (set by put or by get): emit      *)
(* 'expiry' with the stored value, then del(key).  Reading .value of a     *)
(* missing record is a TypeError raised inside the callback.               *)
(***************************************************************************)
\* slip: the callback deletes the key before it reads the value to emit
emitExpiryAfterDel(key) == emit("TypeError", key, "undefined")

\* self.emit('expiry', key, _cache[key].value)
emitExpiry(key) == emit("expiry", key, Record(key).value)

\* slip: the callback runs `delete _cache[key]` in place of self.del(key)
ExpirationCallbackDeletesOnly(ref) ==
    LET timer == TimerAt(ref)
        key == timer.key
        cache == RunCache(ref, clearTimeout(timer))
    IN  /\ expiring = <<>>
        /\ timer.kind = "timeout"
        /\ Due(timer)
        /\ IF Has(key)
           THEN /\ emitted' = emitExpiry(key)
                /\ _cache' = Without(cache, key)
                /\ unreferenced' = RunUnreferenced(ref, clearTimeout(timer))
                                      \o Dropped(Record(key).refreshInterval)
           ELSE /\ emitted' = emit("TypeError", key, "undefined")
                /\ _cache' = cache
                /\ unreferenced' = RunUnreferenced(ref, clearTimeout(timer))
        /\ returned' = NoCall
        /\ UNCHANGED <<_resetExpiryOnAccess, now, other, expiring>>

ExpirationCallback(ref) ==
    LET timer == TimerAt(ref)
        key == timer.key
        cache == RunCache(ref, clearTimeout(timer))
    IN  /\ expiring = <<>>
        /\ timer.kind = "timeout"
        /\ Due(timer)
        /\ IF Has(key)
           THEN /\ emitted' = emitExpiry(key)
                /\ _cache' = del(cache, key).cache
                /\ unreferenced' = RunUnreferenced(ref, clearTimeout(timer))
                                      \o del(cache, key).dropped
           ELSE /\ emitted' = emit("TypeError", key, "undefined")
                /\ _cache' = cache
                /\ unreferenced' = RunUnreferenced(ref, clearTimeout(timer))
        /\ returned' = NoCall
        /\ UNCHANGED <<_resetExpiryOnAccess, now, other, expiring>>

(***************************************************************************)
(* The callback of a refresh interval: emit 'refresh' with the stored      *)
(* value.                                                                  *)
(***************************************************************************)
\* self.emit('refresh', key, _cache[key].value)
emitRefresh(key) == emit("refresh", key, Record(key).value)

\* slip: the refresh is set with setTimeout and runs once
repeatOnce(timer) == [timer EXCEPT !.active = FALSE]

\* the interval timer once it has run: setInterval repeats it every delay
repeat(timer) == [timer EXCEPT !.callAt = timer.callAt + timer.delay]

RefreshCallback(ref) ==
    LET timer == TimerAt(ref)
        key == timer.key
        next == repeat(timer)
    IN  /\ expiring = <<>>
        /\ timer.kind = "interval"
        /\ Due(timer)
        /\ emitted' = (IF Has(key) THEN emitRefresh(key)
                       ELSE emit("TypeError", key, "undefined"))
        /\ _cache' = RunCache(ref, next)
        /\ unreferenced' = RunUnreferenced(ref, next)
        /\ returned' = NoCall
        /\ UNCHANGED <<_resetExpiryOnAccess, now, other, expiring>>

(***************************************************************************)
(* The expiration callback in two steps, with the calls the subscribers of *)
(* 'expiry' make in between: emit runs the subscribers before it returns,  *)
(* and self.del(key) runs after it.                                        *)
(***************************************************************************)
\* slip: the callback calls del before it emits
ExpirationBeginAfterDel(ref) ==
    LET timer == TimerAt(ref)
        key == timer.key
        cache == RunCache(ref, clearTimeout(timer))
    IN  /\ expiring = <<>>
        /\ timer.kind = "timeout"
        /\ Due(timer)
        /\ emitted' = emit("expiry", key, "undefined")
        /\ _cache' = del(cache, key).cache
        /\ unreferenced' = RunUnreferenced(ref, clearTimeout(timer)) \o del(cache, key).dropped
        /\ expiring' = <<key>>
        /\ returned' = NoCall
        /\ UNCHANGED <<_resetExpiryOnAccess, now, other>>

\* self.emit('expiry', key, _cache[key].value), up to the first subscriber
ExpirationBegin(ref) ==
    LET timer == TimerAt(ref)
        key == timer.key
    IN  /\ expiring = <<>>
        /\ timer.kind = "timeout"
        /\ Due(timer)
        /\ emitted' = (IF Has(key) THEN emitExpiry(key)
                       ELSE emit("TypeError", key, "undefined"))
        /\ _cache' = RunCache(ref, clearTimeout(timer))
        /\ unreferenced' = RunUnreferenced(ref, clearTimeout(timer))
        /\ expiring' = (IF Has(key) THEN <<key>> ELSE <<>>)
        /\ returned' = NoCall
        /\ UNCHANGED <<_resetExpiryOnAccess, now, other>>

\* slip: the callback deletes the record only if it is the one that expired
ExpirationEndUnlessRewritten ==
    /\ expiring # <<>>
    /\ IF Has(expiring[1]) /\ ~Record(expiring[1]).expirationTimeout.active
       THEN /\ _cache' = del(_cache, expiring[1]).cache
            /\ unreferenced' = unreferenced \o del(_cache, expiring[1]).dropped
       ELSE UNCHANGED <<_cache, unreferenced>>
    /\ expiring' = <<>>
    /\ emitted' = <<>>
    /\ returned' = NoCall
    /\ UNCHANGED <<_resetExpiryOnAccess, now, other>>

\* self.del(key), once emit has returned
ExpirationEnd ==
    /\ expiring # <<>>
    /\ _cache' = del(_cache, expiring[1]).cache
    /\ unreferenced' = unreferenced \o del(_cache, expiring[1]).dropped
    /\ expiring' = <<>>
    /\ emitted' = <<>>
    /\ returned' = NoCall
    /\ UNCHANGED <<_resetExpiryOnAccess, now, other>>

(***************************************************************************)
(* The caller turns to the second instance: its closure variables become   *)
(* the ones the methods and callbacks read and write.                      *)
(***************************************************************************)
\* slip: _cache is a variable of the module, shared by the instances
SwitchSharedCache ==
    /\ expiring = <<>>
    /\ _resetExpiryOnAccess' = other._resetExpiryOnAccess
    /\ other' = Closure(_cache, _resetExpiryOnAccess, unreferenced)
    /\ emitted' = <<>>
    /\ returned' = NoCall
    /\ UNCHANGED <<_cache, unreferenced, now, expiring>>

Switch ==
    /\ expiring = <<>>
    /\ _cache' = other._cache
    /\ _resetExpiryOnAccess' = other._resetExpiryOnAccess
    /\ unreferenced' = other.unreferenced
    /\ other' = Closure(_cache, _resetExpiryOnAccess, unreferenced)
    /\ emitted' = <<>>
    /\ returned' = NoCall
    /\ UNCHANGED <<now, expiring>>

(***************************************************************************)
(* One millisecond passes; every timer that was due has run.               *)
(***************************************************************************)
Tick ==
    /\ now < MaxTime
    /\ expiring = <<>>
    /\ \A timer \in Timers \cup OtherTimers : ~Due(timer)
    /\ now' = now + 1
    /\ emitted' = <<>>
    /\ returned' = NoCall
    /\ UNCHANGED <<_cache, _resetExpiryOnAccess, unreferenced, other, expiring>>

(***************************************************************************)
(* The cache driven on one key, with every argument of the bounded sets.   *)
(***************************************************************************)
OneKey == {"a"}

Next ==
    \/ \E key \in OneKey : Get(key)
    \/ \E key \in OneKey : Del(key)
    \/ \E key \in OneKey, value \in Values, duration \in TimeArgs, refreshInterval \in TimeArgs :
          Put(key, value, duration, refreshInterval)
    \/ Clear
    \/ \E shouldResetExpiry \in FlagArgs : ResetExpiryOnAccess(shouldResetExpiry)
    \/ \E ref \in Refs : ExpirationCallback(ref)
    \/ \E ref \in Refs : RefreshCallback(ref)
    \/ Tick

Spec == Init /\ [][Next]_vars

(***************************************************************************)
(* The cache driven on two keys, with one value and the arguments put      *)
(* accepts.                                                                *)
(***************************************************************************)
OneValue == {"v1"}
Accepted == {x \in TimeArgs : ~InvalidTime(x)}

NextTwoKeys ==
    \/ \E key \in Keys : Get(key)
    \/ \E key \in Keys : Del(key)
    \/ \E key \in Keys, value \in OneValue, duration \in Accepted, refreshInterval \in Accepted :
          Put(key, value, duration, refreshInterval)
    \/ Clear
    \/ \E shouldResetExpiry \in FlagArgs : ResetExpiryOnAccess(shouldResetExpiry)
    \/ \E ref \in Refs : ExpirationCallback(ref)
    \/ \E ref \in Refs : RefreshCallback(ref)
    \/ Tick

SpecTwoKeys == Init /\ [][NextTwoKeys]_vars

(***************************************************************************)
(* The cache driven on one key with one value, put being given every kind  *)
(* of duration and refreshInterval argument.                               *)
(***************************************************************************)
NextArgs ==
    \/ \E key \in OneKey : Get(key)
    \/ \E key \in OneKey : Del(key)
    \/ \E key \in OneKey, value \in OneValue, duration \in PutArgs, refreshInterval \in PutArgs :
          Put(key, value, duration, refreshInterval)
    \/ Clear
    \/ \E shouldResetExpiry \in FlagArgs : ResetExpiryOnAccess(shouldResetExpiry)
    \/ \E ref \in Refs : ExpirationCallback(ref)
    \/ \E ref \in Refs : RefreshCallback(ref)
    \/ Tick

SpecArgs == Init /\ [][NextArgs]_vars

(***************************************************************************)
(* The cache driven on three keys, two of them array indices, with one     *)
(* value, one duration and one refreshInterval.                            *)
(***************************************************************************)
OrderDurations == {Undefined, Num(2)}
OrderIntervals == {Undefined, Num(2)}

NextKeyOrder ==
    \/ \E key \in OrderKeys : Get(key)
    \/ \E key \in OrderKeys : Del(key)
    \/ \E key \in OrderKeys, value \in OneValue,
          duration \in OrderDurations, refreshInterval \in OrderIntervals :
          Put(key, value, duration, refreshInterval)
    \/ Clear
    \/ \E shouldResetExpiry \in FlagArgs : ResetExpiryOnAccess(shouldResetExpiry)
    \/ \E ref \in Refs : ExpirationCallback(ref)
    \/ \E ref \in Refs : RefreshCallback(ref)
    \/ Tick

SpecKeyOrder == Init /\ [][NextKeyOrder]_vars

(***************************************************************************)
(* The cache driven on one key with the subscribers of 'expiry' calling    *)
(* its methods while the expiration callback is between emit and del.      *)
(***************************************************************************)
NextSubscriber ==
    \/ \E key \in OneKey : Get(key)
    \/ \E key \in OneKey : Del(key)
    \/ \E key \in OneKey, value \in Values, duration \in Accepted, refreshInterval \in Accepted :
          Put(key, value, duration, refreshInterval)
    \/ Clear
    \/ \E shouldResetExpiry \in FlagArgs : ResetExpiryOnAccess(shouldResetExpiry)
    \/ \E ref \in Refs : ExpirationBegin(ref)
    \/ ExpirationEnd
    \/ \E ref \in Refs : RefreshCallback(ref)
    \/ Tick

SpecSubscriber == Init /\ [][NextSubscriber]_vars

(***************************************************************************)
(* Two instances driven on the same key.                                   *)
(***************************************************************************)
NextInstances ==
    \/ \E key \in OneKey : Get(key)
    \/ \E key \in OneKey : Del(key)
    \/ \E key \in OneKey, value \in Values,
          duration \in OrderDurations, refreshInterval \in OrderIntervals :
          Put(key, value, duration, refreshInterval)
    \/ Clear
    \/ \E shouldResetExpiry \in FlagArgs : ResetExpiryOnAccess(shouldResetExpiry)
    \/ \E ref \in Refs : ExpirationCallback(ref)
    \/ \E ref \in Refs : RefreshCallback(ref)
    \/ Switch
    \/ Tick

SpecInstances == Init /\ [][NextInstances]_vars

(***************************************************************************)
(* The cache driven on one key with values that include null, undefined    *)
(* and false.                                                              *)
(***************************************************************************)
NextValues ==
    \/ \E key \in OneKey : Get(key)
    \/ \E key \in OneKey : Del(key)
    \/ \E key \in OneKey, value \in StoredValues,
          duration \in OrderDurations, refreshInterval \in OrderIntervals :
          Put(key, value, duration, refreshInterval)
    \/ Clear
    \/ \E shouldResetExpiry \in FlagArgs : ResetExpiryOnAccess(shouldResetExpiry)
    \/ \E ref \in Refs : ExpirationCallback(ref)
    \/ \E ref \in Refs : RefreshCallback(ref)
    \/ Tick

SpecValues == Init /\ [][NextValues]_vars

(***************************************************************************)
(* The cache driven with string keys and a number key.  A timer closure    *)
(* reads _cache[key] with the key it captured, which names the same        *)
(* property; timers and events are recorded under the property name.       *)
(***************************************************************************)
NextKeyTypes ==
    \/ \E key \in KeyArgs : Get(ToPropertyKey(key))
    \/ \E key \in KeyArgs : Del(ToPropertyKey(key))
    \/ \E key \in KeyArgs, value \in OneValue,
          duration \in OrderDurations, refreshInterval \in OrderIntervals :
          Put(ToPropertyKey(key), value, duration, refreshInterval)
    \/ Clear
    \/ \E shouldResetExpiry \in FlagArgs : ResetExpiryOnAccess(shouldResetExpiry)
    \/ \E ref \in Refs : ExpirationCallback(ref)
    \/ \E ref \in Refs : RefreshCallback(ref)
    \/ Tick

SpecKeyTypes == Init /\ [][NextKeyTypes]_vars

TypeOK ==
    /\ now \in 0..MaxTime
    /\ _resetExpiryOnAccess \in BOOLEAN
    /\ \A i \in 1..Len(_cache) :
          _cache[i].key \in Keys \cup OrderKeys \cup {ToPropertyKey(key) : key \in KeyArgs}

(***************************************************************************)
(* Vocabulary of the properties.                                           *)
(***************************************************************************)
\* where the runtime holds a scheduled timer of the given kind for key
ScheduledFor(key, kind) ==
    {ref \in Refs : TimerAt(ref).key = key /\ TimerAt(ref).kind = kind}

\* the handle the record of key holds (undefined when there is none, or no record)
ExpirationOf(key) == IF Has(key) THEN Record(key).expirationTimeout ELSE NoTimer
RefreshOf(key) == IF Has(key) THEN Record(key).refreshInterval ELSE NoTimer
DurationOf(key) == IF Has(key) THEN Record(key).duration ELSE Undefined

\* the deadline of the pending expiration of key, and the instant it was scheduled
Pending(timer) == timer.active
ScheduledAt(timer) == timer.callAt - timer.delay

\* the only scheduled timer of that kind for key is the one its record holds
OnlyExpiration(key) ==
    ScheduledFor(key, "timeout") = {[in |-> "expirationTimeout", key |-> key, i |-> 0]}
OnlyRefresh(key) ==
    ScheduledFor(key, "interval") = {[in |-> "refreshInterval", key |-> key, i |-> 0]}

ValidArgs == Accepted
Supplied == {x \in ValidArgs : TypeOf(x) # "undefined"}

(***************************************************************************)
(* C1: a put on an existing key that omits duration leaves the pending     *)
(* expiration timer of the key untouched, whether or not it supplies a     *)
(* refreshInterval and whatever the reset-on-access flag: the same timer   *)
(* stays scheduled for the same deadline, no other expiration is scheduled *)
(* for the key, and the value the expiry will report is the one written.   *)
(***************************************************************************)
C1_PutWithoutDurationKeepsExpiration ==
    [][\A key \in OneKey, value \in Values, refreshInterval \in ValidArgs :
          (Has(key) /\ Put(key, value, Undefined, refreshInterval))
          => /\ ExpirationOf(key)' = ExpirationOf(key)
             /\ DurationOf(key)' = DurationOf(key)
             /\ ScheduledFor(key, "timeout")' = ScheduledFor(key, "timeout")
             /\ get(key)' = value]_vars

\* a value was written with a new refresh interval at this instant, on a key
\* whose expiration was scheduled earlier and is still pending
W_C1 ==
    \E key \in Keys :
        /\ Has(key) /\ get(key) = "v2"
        /\ Pending(ExpirationOf(key)) /\ ScheduledAt(ExpirationOf(key)) < now
        /\ Pending(RefreshOf(key)) /\ ScheduledAt(RefreshOf(key)) = now

(***************************************************************************)
(* C2: a put on an existing key that supplies a duration cancels the       *)
(* pending expiration timer and schedules a new one, duration after the    *)
(* call: afterwards exactly one expiration is scheduled for the key, at    *)
(* now + duration, and the value it will report is the one written.        *)
(***************************************************************************)
C2_PutWithDurationReplacesExpiration ==
    [][\A key \in OneKey, value \in Values, duration \in Supplied, refreshInterval \in ValidArgs :
          (Has(key) /\ Put(key, value, duration, refreshInterval))
          => /\ OnlyExpiration(key)'
             /\ ExpirationOf(key)'.callAt = now + duration.n
             /\ DurationOf(key)' = duration
             /\ get(key)' = value]_vars

\* the expiration of a key was scheduled at this instant, later than time 0,
\* while its refresh interval dates from before: the key existed already
W_C2 ==
    \E key \in Keys :
        /\ Has(key) /\ ~_resetExpiryOnAccess
        /\ Pending(ExpirationOf(key)) /\ ScheduledAt(ExpirationOf(key)) = now /\ now > 0
        /\ Pending(RefreshOf(key)) /\ RefreshOf(key).callAt < now + RefreshOf(key).delay

(***************************************************************************)
(* C3: a put on an existing key that omits refreshInterval leaves the      *)
(* refresh timer of the key untouched, whether or not it supplies a        *)
(* duration: the same interval stays scheduled for the same instants, no   *)
(* other refresh is scheduled for the key, and the value written is the    *)
(* one the next refresh reports.                                           *)
(***************************************************************************)
C3_PutWithoutIntervalKeepsRefresh ==
    [][\A key \in OneKey, value \in Values, duration \in ValidArgs :
          (Has(key) /\ Put(key, value, duration, Undefined))
          => /\ RefreshOf(key)' = RefreshOf(key)
             /\ ScheduledFor(key, "interval")' = ScheduledFor(key, "interval")
             /\ get(key)' = value]_vars

\* a duration was supplied at this instant for a key whose refresh interval
\* has already run at least once and is still scheduled
W_C3 ==
    \E key \in Keys :
        /\ Has(key) /\ ~_resetExpiryOnAccess /\ get(key) = "v2"
        /\ Pending(ExpirationOf(key)) /\ ScheduledAt(ExpirationOf(key)) = now
        /\ Pending(RefreshOf(key)) /\ RefreshOf(key).callAt > RefreshOf(key).delay
        /\ ScheduledAt(RefreshOf(key)) < now

(***************************************************************************)
(* C4: a put on an existing key that supplies a refreshInterval cancels    *)
(* the previous refresh timer and starts a new one at the call: afterwards *)
(* exactly one refresh is scheduled for the key, and its next run is one   *)
(* full new interval after the call.                                       *)
(***************************************************************************)
C4_PutWithIntervalReplacesRefresh ==
    [][\A key \in OneKey, value \in Values, duration \in ValidArgs, refreshInterval \in Supplied :
          (Has(key) /\ Put(key, value, duration, refreshInterval))
          => /\ OnlyRefresh(key)'
             /\ RefreshOf(key)'.callAt = now + refreshInterval.n
             /\ RefreshOf(key)'.delay = refreshInterval.n]_vars

\* a refresh interval of 2 was started at instant 1 or later on a key whose
\* expiration was scheduled at an earlier instant
W_C4 ==
    \E key \in Keys :
        /\ Has(key) /\ now > 0
        /\ Pending(RefreshOf(key)) /\ RefreshOf(key).delay = 2
        /\ RefreshOf(key).callAt = now + 2
        /\ Pending(ExpirationOf(key)) /\ ScheduledAt(ExpirationOf(key)) < now

(***************************************************************************)
(* C5: a key put with a duration gets exactly one expiration, due at       *)
(* now + duration; no pending timer is ever overdue and the clock, a       *)
(* refresh and a change of the flag leave the pending expiration alone, so *)
(* it runs when the duration has elapsed and not before; when it runs it   *)
(* emits one expiry for the key, the key is then absent (get returns null, *)
(* size and keys no longer count it) and no expiration stays scheduled for *)
(* it.                                                                     *)
(***************************************************************************)
InKeys(key) == \E i \in 1..Len(keys) : keys[i] = key

C5_ExpiresOnceWhenDurationElapsed ==
    [][/\ \A key \in OneKey, value \in Values, duration \in Supplied, refreshInterval \in ValidArgs :
            Put(key, value, duration, refreshInterval)
            => /\ OnlyExpiration(key)'
               /\ ExpirationOf(key)'.callAt = now + duration.n
       /\ \A ref \in Refs : TimerAt(ref).callAt >= now
       /\ \A key \in OneKey :
            (/\ Pending(ExpirationOf(key))
             /\ \/ Tick
                \/ \E ref \in Refs : RefreshCallback(ref)
                \/ \E shouldResetExpiry \in FlagArgs : ResetExpiryOnAccess(shouldResetExpiry))
            => ExpirationOf(key)' = ExpirationOf(key)
       /\ \A ref \in Refs :
            ExpirationCallback(ref)
            => LET key == TimerAt(ref).key IN
               /\ now = TimerAt(ref).callAt
               /\ Len(emitted') = 1
               /\ emitted'[1].eventName = "expiry" /\ emitted'[1].key = key
               /\ ~Has(key)' /\ get(key)' = Null
               /\ size' = size - 1 /\ ~InKeys(key)'
               /\ ScheduledFor(key, "timeout")' = {}]_vars

\* the expiry of a key has just been emitted, two milliseconds or more after
\* time 0, and the key is gone
W_C5 ==
    /\ now >= 2
    /\ Len(emitted) = 1 /\ emitted[1].eventName = "expiry"
    /\ ~Has(emitted[1].key) /\ get(emitted[1].key) = Null
    /\ ScheduledFor(emitted[1].key, "timeout") = {}

(***************************************************************************)
(* C6: an expiry carries the key and the value stored when the timer       *)
(* runs: every valid put stores its value, only a put changes the value of *)
(* a key that stays in the store, and the callback emits the value stored  *)
(* at that moment.                                                         *)
(***************************************************************************)
C6_ExpiryCarriesStoredValue ==
    [][/\ \A key \in OneKey, value \in Values, duration \in ValidArgs, refreshInterval \in ValidArgs :
            Put(key, value, duration, refreshInterval) => get(key)' = value
       /\ \A key \in OneKey :
            (Has(key) /\ Has(key)' /\ get(key)' # get(key))
            => \E duration \in ValidArgs, refreshInterval \in ValidArgs :
                  Put(key, get(key)', duration, refreshInterval)
       /\ \A ref \in Refs :
            ExpirationCallback(ref)
            => emitted' = <<[eventName |-> "expiry", key |-> TimerAt(ref).key,
                             value |-> get(TimerAt(ref).key)]>>]_vars

\* an expiry carrying v2 has been emitted for a key one millisecond after time 0
W_C6 ==
    /\ now >= 1
    /\ emitted = <<[eventName |-> "expiry", key |-> "a", value |-> "v2"]>>
    /\ ~Has("a")

(***************************************************************************)
(* C7: a key put with a refreshInterval i gets exactly one refresh timer,  *)
(* first due at now + i; each time it runs, at its due instant, it emits   *)
(* one refresh with the key and the stored value, is due again i later,    *)
(* and leaves the key, its value, its duration and its expiration timer    *)
(* as they were.                                                           *)
(***************************************************************************)
C7_RefreshRepeatsEveryInterval ==
    [][/\ \A key \in OneKey, value \in Values, duration \in ValidArgs, refreshInterval \in Supplied :
            Put(key, value, duration, refreshInterval)
            => /\ OnlyRefresh(key)'
               /\ RefreshOf(key)'.callAt = now + refreshInterval.n
               /\ RefreshOf(key)'.delay = refreshInterval.n
       /\ \A ref \in Refs :
            RefreshCallback(ref)
            => LET key == TimerAt(ref).key IN
               /\ now = TimerAt(ref).callAt
               /\ emitted' = <<[eventName |-> "refresh", key |-> key, value |-> get(key)]>>
               /\ keys' = keys
               /\ get(key)' = get(key)
               /\ DurationOf(key)' = DurationOf(key)
               /\ ExpirationOf(key)' = ExpirationOf(key)
               /\ OnlyRefresh(key)'
               /\ RefreshOf(key)'.callAt = now + TimerAt(ref).delay
               /\ RefreshOf(key)'.delay = TimerAt(ref).delay]_vars

\* a refresh of interval 1 has just been emitted for the second time or later,
\* for a key that is still stored and whose expiration is still pending
W_C7 ==
    \E key \in Keys :
        /\ Has(key) /\ now >= 2
        /\ emitted = <<[eventName |-> "refresh", key |-> key, value |-> get(key)]>>
        /\ Pending(RefreshOf(key)) /\ RefreshOf(key).delay = 1
        /\ RefreshOf(key).callAt = now + 1
        /\ Pending(ExpirationOf(key))

(***************************************************************************)
(* C8: del on a present key emits nothing, removes the key and leaves no   *)
(* expiration and no refresh scheduled for it; and while a key without     *)
(* scheduled timers stays absent, no step schedules a timer for it or      *)
(* emits an event for it.                                                  *)
(***************************************************************************)
NothingScheduledFor(key) ==
    ScheduledFor(key, "timeout") = {} /\ ScheduledFor(key, "interval") = {}

C8_DelCancelsBothTimers ==
    [][\A key \in Keys :
          /\ (Has(key) /\ Del(key))
             => /\ emitted' = <<>>
                /\ ~Has(key)'
                /\ NothingScheduledFor(key)'
          /\ (~Has(key) /\ NothingScheduledFor(key) /\ ~Has(key)')
             => /\ NothingScheduledFor(key)'
                /\ \A i \in 1..Len(emitted') : emitted'[i].key # key]_vars

\* a key is absent with nothing scheduled for it, after time 0, while the
\* other key is stored with both of its timers pending
W_C8 ==
    /\ now >= 1 /\ emitted = <<>>
    /\ ~Has("a") /\ NothingScheduledFor("a")
    /\ Has("b") /\ Pending(ExpirationOf("b")) /\ Pending(RefreshOf("b"))

C10_GetRestartsExpiration ==
    [][\A key \in Keys :
          (Has(key) /\ _resetExpiryOnAccess /\ DurationOf(key) # Undefined /\ Get(key))
          => /\ OnlyExpiration(key)'
             /\ ExpirationOf(key)'.callAt = now + DurationOf(key).n
             /\ DurationOf(key)' = DurationOf(key)
             /\ get(key)' = get(key)
             /\ RefreshOf(key)' = RefreshOf(key)]_vars

\* with the flag on, the expiration of a key with duration 2 is pending for
\* now + 2, at an instant later than 0
W_C10 ==
    \E key \in Keys :
        /\ Has(key) /\ _resetExpiryOnAccess /\ now >= 1
        /\ DurationOf(key) = Num(2)
        /\ Pending(ExpirationOf(key)) /\ ExpirationOf(key).callAt = now + 2

(***************************************************************************)
(* C11: get never changes the keys, a stored value, a recorded duration or *)
(* a refresh timer of any key, and emits nothing; when reset-on-access is  *)
(* off, or the record read has no duration, it also leaves every           *)
(* expiration timer as it was: the same timers stay scheduled for the same *)
(* deadlines.                                                              *)
(***************************************************************************)
C11_GetLeavesStoreAndRefresh ==
    [][\A key \in Keys :
          Get(key)
          => /\ keys' = keys
             /\ emitted' = <<>>
             /\ \A k \in Keys :
                   /\ get(k)' = get(k)
                   /\ DurationOf(k)' = DurationOf(k)
                   /\ RefreshOf(k)' = RefreshOf(k)
                   /\ ScheduledFor(k, "interval")' = ScheduledFor(k, "interval")
             /\ (~_resetExpiryOnAccess \/ DurationOf(key) = Undefined)
                => /\ unreferenced' = unreferenced
                   /\ \A k \in Keys :
                         /\ ExpirationOf(k)' = ExpirationOf(k)
                         /\ ScheduledFor(k, "timeout")' = ScheduledFor(k, "timeout")]_vars

\* with the flag off, a call has just returned the stored value of a key whose
\* expiration was scheduled two instants earlier and is still pending
W_C11 ==
    \E key \in Keys :
        /\ ~_resetExpiryOnAccess /\ Has(key) /\ returned = Return(get(key))
        /\ DurationOf(key) = Num(2)
        /\ Pending(ExpirationOf(key)) /\ ScheduledAt(ExpirationOf(key)) = now - 2
        /\ Pending(RefreshOf(key))

(***************************************************************************)
(* C12: a put that is given a non-number, NaN, zero or a negative number   *)
(* as duration or as refreshInterval throws and changes nothing: the       *)
(* records (keys, values, durations, timer handles), the timers scheduled  *)
(* without a reference, the flag and the clock are as before the call and  *)
(* nothing is emitted, also when the duration is one put accepts and only  *)
(* the refreshInterval is rejected.                                        *)
(***************************************************************************)
Rejectable == {Str, NaN, Num(0), Num(-1)}

C12_RejectedPutChangesNothing ==
    [][\A key \in OneKey, value \in OneValue, duration \in PutArgs, refreshInterval \in PutArgs :
          ((duration \in Rejectable \/ refreshInterval \in Rejectable)
              /\ Put(key, value, duration, refreshInterval))
          => /\ returned'.kind = "throw"
             /\ emitted' = <<>>
             /\ UNCHANGED <<_cache, _resetExpiryOnAccess, unreferenced, now>>]_vars

\* a put has just thrown for its refreshInterval, on a key whose expiration
\* and refresh were scheduled earlier and are still pending
W_C12 ==
    \E key \in Keys :
        /\ returned = Throw("Refresh time must be a positive number")
        /\ Has(key)
        /\ Pending(ExpirationOf(key)) /\ ScheduledAt(ExpirationOf(key)) < now
        /\ Pending(RefreshOf(key)) /\ ScheduledAt(RefreshOf(key)) < now

(***************************************************************************)
(* C13: put throws exactly when a supplied duration or a supplied          *)
(* refreshInterval is not a finite positive number: a non-number, NaN,     *)
(* zero, a negative number and Infinity are rejected, and a finite         *)
(* positive number is accepted.                                            *)
(***************************************************************************)
FinitePositive(x) == x.kind = "number" /\ x.n > 0

C13_PutRejectsAllButFinitePositive ==
    [][\A key \in OneKey, value \in OneValue, duration \in PutArgs, refreshInterval \in PutArgs :
          Put(key, value, duration, refreshInterval)
          => (returned'.kind = "throw"
                <=> \/ (duration # Undefined /\ ~FinitePositive(duration))
                    \/ (refreshInterval # Undefined /\ ~FinitePositive(refreshInterval)))]_vars

(***************************************************************************)
(* C14: del returns true exactly when the key is listed at the call, and   *)
(* the key is not listed afterwards; a key that is not listed becomes      *)
(* listed only by a put that returns.  So a second del of the key returns  *)
(* false until a put writes it again, and del of a key that was never      *)
(* written, was cleared or has expired returns false.                      *)
(***************************************************************************)
C14_DelReturnsWhetherPresent ==
    [][\A key \in OneKey :
          /\ Del(key)
             => /\ returned' = Return(IF InKeys(key) THEN "true" ELSE "false")
                /\ ~InKeys(key)'
          /\ (~InKeys(key) /\ InKeys(key)')
             => /\ returned'.kind = "return" /\ returned'.value \in Values
                /\ emitted' = <<>>]_vars

\* del has just returned true at an instant later than 0, and the key is gone
\* with nothing scheduled for it
W_C14 ==
    \E key \in OneKey :
        /\ returned = Return("true") /\ now >= 1
        /\ ~InKeys(key) /\ NothingScheduledFor(key)

(***************************************************************************)
(* C15: a put that is accepted returns the value it was given and leaves   *)
(* that value stored under the key; get of a stored key returns the stored *)
(* value and leaves it stored; the value stored under a key changes only   *)
(* by a put, which returns the new value.  So get after put returns the    *)
(* value of the last put.                                                  *)
(***************************************************************************)
C15_PutThenGetReturnsValue ==
    [][\A key \in OneKey :
          /\ \A value \in Values, duration \in ValidArgs, refreshInterval \in ValidArgs :
                Put(key, value, duration, refreshInterval)
                => /\ returned' = Return(value)
                   /\ InKeys(key)' /\ Record(key)'.value = value
          /\ (InKeys(key) /\ Get(key))
             => /\ returned' = Return(Record(key).value)
                /\ InKeys(key)' /\ Record(key)'.value = Record(key).value
          /\ (InKeys(key) /\ InKeys(key)' /\ Record(key)'.value # Record(key).value)
             => /\ returned' = Return(Record(key)'.value)
                /\ emitted' = <<>>]_vars

\* a call has just returned "v2", the stored value of a key whose expiration
\* and refresh were scheduled earlier than this instant
W_C15 ==
    \E key \in OneKey :
        /\ returned = Return("v2") /\ InKeys(key) /\ Record(key).value = "v2"
        /\ Pending(ExpirationOf(key)) /\ ScheduledAt(ExpirationOf(key)) < now
        /\ Pending(RefreshOf(key)) /\ ScheduledAt(RefreshOf(key)) < now

(***************************************************************************)
(* C16: get of a key that is not listed returns null, does not throw,      *)
(* emits nothing and changes nothing: no record is created, no timer is    *)
(* scheduled or cancelled and the flag is as before, whatever the flag is. *)
(***************************************************************************)
C16_GetOfAbsentKeyReturnsNull ==
    [][\A key \in Keys :
          (~InKeys(key) /\ Get(key))
          => /\ returned' = Return(Null)
             /\ emitted' = <<>>
             /\ UNCHANGED <<_cache, _resetExpiryOnAccess, unreferenced, now>>]_vars

\* with the flag on, get has just returned null for a key that is not listed
\* while the other key is stored with its expiration pending
W_C16 ==
    /\ returned = Return(Null) /\ _resetExpiryOnAccess /\ now >= 1
    /\ ~InKeys("a") /\ NothingScheduledFor("a")
    /\ InKeys("b") /\ Pending(ExpirationOf("b"))

(***************************************************************************)
(* C17: the flag is false at construction.  resetExpiryOnAccess without    *)
(* an argument sets it to true, with a boolean sets it to that boolean,    *)
(* and with another argument throws and leaves it as it was.  In each case *)
(* the records, the scheduled timers and the clock are unchanged and       *)
(* nothing is emitted.                                                     *)
(***************************************************************************)
C17_ResetExpiryOnAccessSetsOnlyFlag ==
    /\ _resetExpiryOnAccess = FALSE
    /\ [][\A shouldResetExpiry \in FlagArgs :
             ResetExpiryOnAccess(shouldResetExpiry)
             => /\ UNCHANGED <<_cache, unreferenced, now>>
                /\ emitted' = <<>>
                /\ shouldResetExpiry = Undefined
                   => (_resetExpiryOnAccess' = TRUE /\ returned'.kind = "return")
                /\ shouldResetExpiry = Bool(TRUE)
                   => (_resetExpiryOnAccess' = TRUE /\ returned'.kind = "return")
                /\ shouldResetExpiry = Bool(FALSE)
                   => (_resetExpiryOnAccess' = FALSE /\ returned'.kind = "return")
                /\ shouldResetExpiry.kind \notin {"undefined", "boolean"}
                   => (_resetExpiryOnAccess' = _resetExpiryOnAccess
                        /\ returned'.kind = "throw")]_vars

\* resetExpiryOnAccess has just thrown while the flag is on and a key is
\* stored with an expiration that was scheduled earlier
W_C17 ==
    \E key \in OneKey :
        /\ returned = Throw("Reset expiry on get flag must be a boolean")
        /\ _resetExpiryOnAccess
        /\ InKeys(key) /\ Pending(ExpirationOf(key)) /\ ScheduledAt(ExpirationOf(key)) < now

(***************************************************************************)
(* C18: a key put without a duration is stored without one, and a stored   *)
(* key gets a duration only by a put.  While a stored key has no duration  *)
(* no expiration is scheduled for it, no step emits an expiry for it, and  *)
(* it leaves the store only by del or clear.  While the record of a stored *)
(* key holds no refresh interval none is scheduled for it and no step      *)
(* emits a refresh for it.                                                 *)
(***************************************************************************)
C18_NoDurationNeverExpires ==
    [][\A key \in OneKey :
          /\ \A value \in Values, refreshInterval \in ValidArgs :
                (~InKeys(key) /\ Put(key, value, Undefined, refreshInterval))
                => (InKeys(key)' /\ DurationOf(key)' = Undefined)
          /\ (InKeys(key) /\ DurationOf(key) = Undefined)
             => /\ ExpirationOf(key) = NoTimer
                /\ ScheduledFor(key, "timeout") = {}
                /\ \A i \in 1..Len(emitted') :
                      ~(emitted'[i].eventName = "expiry" /\ emitted'[i].key = key)
                /\ ~InKeys(key)' => returned' \in {Return("true"), Return("undefined")}
                /\ (InKeys(key)' /\ DurationOf(key)' # Undefined)
                   => (returned'.kind = "return" /\ returned'.value \in Values)
          /\ (InKeys(key) /\ RefreshOf(key) = NoTimer)
             => /\ ScheduledFor(key, "interval") = {}
                /\ \A i \in 1..Len(emitted') :
                      ~(emitted'[i].eventName = "refresh" /\ emitted'[i].key = key)]_vars

\* the clock has just moved to an instant 3 or later and a key is stored
\* without duration and without refresh interval
W_C18 ==
    \E key \in OneKey :
        /\ now >= 3 /\ returned = NoCall /\ emitted = <<>>
        /\ InKeys(key) /\ DurationOf(key) = Undefined
        /\ RefreshOf(key) = NoTimer

(***************************************************************************)
(* C19: a put of a key that is not listed stores a record that holds       *)
(* nothing of an earlier one.  Without a duration the record has no        *)
(* duration and no expiration handle and no expiration is scheduled for    *)
(* the key; with a duration exactly one expiration is scheduled, duration  *)
(* after the call.  Without a refreshInterval the record has no refresh    *)
(* handle and no refresh is scheduled for the key; with one exactly one    *)
(* refresh is scheduled, refreshInterval after the call.                   *)
(***************************************************************************)
C19_PutOfAbsentKeyIsFresh ==
    [][\A key \in OneKey, value \in Values, duration \in ValidArgs, refreshInterval \in ValidArgs :
          (~InKeys(key) /\ Put(key, value, duration, refreshInterval))
          => /\ InKeys(key)'
             /\ DurationOf(key)' = duration
             /\ IF duration = Undefined
                THEN ExpirationOf(key)' = NoTimer /\ ScheduledFor(key, "timeout")' = {}
                ELSE OnlyExpiration(key)' /\ ExpirationOf(key)'.callAt = now + duration.n
             /\ IF refreshInterval = Undefined
                THEN RefreshOf(key)' = NoTimer /\ ScheduledFor(key, "interval")' = {}
                ELSE OnlyRefresh(key)' /\ RefreshOf(key)'.callAt = now + refreshInterval.n]_vars

\* a call has just returned a stored value at an instant later than 1 and the
\* record of the key has no duration and holds no timer handle
W_C19 ==
    \E key \in OneKey :
        /\ now >= 2 /\ returned.kind = "return" /\ returned.value \in Values
        /\ InKeys(key) /\ DurationOf(key) = Undefined
        /\ ExpirationOf(key) = NoTimer /\ RefreshOf(key) = NoTimer
        /\ NothingScheduledFor(key)

(***************************************************************************)
(* C20: keys() lists the stored keys in the order they were inserted: a    *)
(* put of a key that is listed leaves the list as it was, a put of a key   *)
(* that is not listed appends the key at the end, and a step that adds no  *)
(* key leaves the keys that stay in the order they had.  This is stated    *)
(* for every key, also for keys that are array indices.                    *)
(***************************************************************************)
C20_KeysInInsertionOrder ==
    [][/\ \A key \in OrderKeys, value \in OneValue,
             duration \in OrderDurations, refreshInterval \in OrderIntervals :
             Put(key, value, duration, refreshInterval)
             => keys' = (IF InKeys(key) THEN keys ELSE Append(keys, key))
       /\ (\A key \in OrderKeys : InKeys(key)' => InKeys(key))
          => LET live == {key \in OrderKeys : InKeys(key)'}
                 Live(key) == key \in live
             IN  keys' = SelectSeq(keys, Live)]_vars

(***************************************************************************)
(* C21: a call or a timer callback of one instance leaves the records,     *)
(* the timers and the flag of the other instance as they were; only the    *)
(* clock is common to both.  When the caller turns to the other instance   *)
(* the methods see exactly what that instance held, and the instance left  *)
(* behind keeps what it held.                                              *)
(***************************************************************************)
C21_InstancesAreIndependent ==
    [][/\ Switch
          => /\ Closure(_cache, _resetExpiryOnAccess, unreferenced)' = other
             /\ other' = Closure(_cache, _resetExpiryOnAccess, unreferenced)
             /\ now' = now
       /\ ~Switch => other' = other]_vars

\* the two instances hold the same key with different values, different
\* flags and an expiration pending in one of them only
W_C21 ==
    \E key \in OneKey :
        /\ InKeys(key) /\ Len(other._cache) = 1 /\ other._cache[1].key = key
        /\ Record(key).value # other._cache[1].value
        /\ _resetExpiryOnAccess # other._resetExpiryOnAccess
        /\ Pending(ExpirationOf(key)) /\ ~other._cache[1].expirationTimeout.active
        /\ now >= 1

(***************************************************************************)
(* C22: in every state, also while the subscribers of 'expiry' are calling *)
(* put, get, del and clear, at most one expiration timer and at most one   *)
(* refresh timer is scheduled for a key.                                   *)
(***************************************************************************)
C22_AtMostOneTimerOfEachKind ==
    \A key \in Keys :
        /\ Cardinality(ScheduledFor(key, "timeout")) <= 1
        /\ Cardinality(ScheduledFor(key, "interval")) <= 1

\* while the expiry of a key is being delivered, a subscriber has restarted
\* its expiration at this instant and its refresh is pending too
W_C22 ==
    \E key \in OneKey :
        /\ expiring = <<key>> /\ InKeys(key)
        /\ Pending(ExpirationOf(key)) /\ ScheduledAt(ExpirationOf(key)) = now
        /\ Pending(RefreshOf(key))
        /\ Cardinality(ScheduledFor(key, "timeout")) = 1
        /\ Cardinality(ScheduledFor(key, "interval")) = 1

C24_ExpiryCancelsRefresh ==
    [][/\ \A key \in OneKey, ref \in Refs :
             (TimerAt(ref).key = key /\ ExpirationCallback(ref))
             => /\ ~InKeys(key)'
                /\ ScheduledFor(key, "interval")' = {}
       /\ \A key \in OneKey :
             ~InKeys(key)
             => \A i \in 1..Len(emitted') :
                   ~(emitted'[i].eventName = "refresh" /\ emitted'[i].key = key)]_vars

\* the expiry of a key has just been emitted at an instant 2 or later; the key
\* is gone and no timer is scheduled
W_C24 ==
    \E key \in OneKey, value \in Values :
        /\ emitted = emit("expiry", key, value) /\ now >= 2
        /\ ~InKeys(key) /\ Refs = {}

(***************************************************************************)
(* C25: the expiration callback emits 'expiry' with the key still in the   *)
(* store: when the subscribers start to run, the key is listed, its value  *)
(* is the one emitted and the size is as before the callback; when the     *)
(* callback has called del the key is not listed.                          *)
(***************************************************************************)
C25_ExpiryEmittedBeforeRemoval ==
    [][\A key \in OneKey :
          /\ \A ref \in Refs :
                (TimerAt(ref).key = key /\ ExpirationBegin(ref))
                => /\ InKeys(key)
                   /\ emitted' = emit("expiry", key, Record(key).value)
                   /\ expiring' = <<key>>
                   /\ keys' = keys /\ size' = size
                   /\ get(key)' = get(key)
          /\ (expiring = <<key>> /\ ExpirationEnd)
             => (~InKeys(key)' /\ expiring' = <<>>)]_vars

\* while the expiry of a key is being delivered, a call of a subscriber has
\* returned the value of the key, whose expiration has run
W_C25 ==
    \E key \in OneKey :
        /\ expiring = <<key>> /\ InKeys(key) /\ size = 1
        /\ returned = Return(get(key))
        /\ ~Pending(ExpirationOf(key))

(***************************************************************************)
(* C29: when the expiration callback has called del, the key it expired is *)
(* not in the store and no expiration and no refresh is scheduled for it,  *)
(* whatever the subscribers of 'expiry' called in between.                 *)
(***************************************************************************)
C29_SubscriberWriteDoesNotSurvive ==
    [][\A key \in OneKey :
          (expiring = <<key>> /\ ExpirationEnd)
          => /\ ~InKeys(key)'
             /\ NothingScheduledFor(key)'
             /\ expiring' = <<>>]_vars

\* while the expiry of a key is being delivered, a subscriber has put the key
\* with a duration and a refresh interval at this instant
W_C29 ==
    \E key \in OneKey :
        /\ expiring = <<key>> /\ InKeys(key) /\ now >= 1
        /\ Pending(ExpirationOf(key)) /\ ScheduledAt(ExpirationOf(key)) = now
        /\ Pending(RefreshOf(key)) /\ ScheduledAt(RefreshOf(key)) = now

(***************************************************************************)
(* C30: while no expiration callback is in progress, a key in the store    *)
(* has a pending expiration timer exactly when its record has a duration,  *)
(* and the refresh handle its record holds is a pending timer.             *)
(***************************************************************************)
C30_DurationHasPendingExpiration ==
    expiring = <<>>
    => \A key \in OneKey :
          InKeys(key)
          => /\ Pending(ExpirationOf(key)) <=> DurationOf(key) # Undefined
             /\ OnlyExpiration(key) <=> DurationOf(key) # Undefined
             /\ RefreshOf(key) # NoTimer => (Pending(RefreshOf(key)) /\ OnlyRefresh(key))
             /\ RefreshOf(key) = NoTimer => ScheduledFor(key, "interval") = {}

\* no callback is in progress and a get has restarted, at an instant 2 or
\* later, the expiration of a key with duration 1
W_C30 ==
    \E key \in OneKey :
        /\ expiring = <<>> /\ InKeys(key) /\ now >= 2 /\ _resetExpiryOnAccess
        /\ returned = Return(get(key))
        /\ DurationOf(key) = Num(1)
        /\ Pending(ExpirationOf(key)) /\ ScheduledAt(ExpirationOf(key)) = now

(***************************************************************************)
(* C26: get returns null exactly when the key is not in the store,         *)
(* whatever value is stored under a key that is: null, undefined and false *)
(* included.                                                               *)
(***************************************************************************)
C26_PresentNeverReadsAsAbsent ==
    [][\A key \in OneKey :
          Get(key) => (returned' = Return(Null) <=> ~InKeys(key))]_vars

(***************************************************************************)
(* C27: keys that are not equal name different entries: a put or a del     *)
(* with one key leaves the entry of every other key as it was, for string  *)
(* keys and for the number 1 and the string '1'.                           *)
(***************************************************************************)
EntryOf(key) == IF InKeys(ToPropertyKey(key)) THEN <<Record(ToPropertyKey(key))>> ELSE <<>>

C27_UnequalKeysAreDifferentEntries ==
    [][\A key \in KeyArgs : \A unequal \in KeyArgs \ {key} :
          (\/ Del(ToPropertyKey(key))
           \/ \E value \in OneValue, duration \in OrderDurations,
                 refreshInterval \in OrderIntervals :
                 Put(ToPropertyKey(key), value, duration, refreshInterval))
          => EntryOf(unequal)' = EntryOf(unequal)]_vars

(***************************************************************************)
(* C28: a put, get or del of one string key, and the expiration or refresh *)
(* callback of one string key, leave every other string key as it was: in  *)
(* or out of the store, with the same value, duration and timer handles,   *)
(* and with the same timers scheduled for the same deadlines.              *)
(***************************************************************************)
StringKeys == {key \in KeyArgs : key.type = "string"}

C28_OtherStringKeysUntouched ==
    [][\A key \in StringKeys : \A untouched \in StringKeys \ {key} :
          (\/ Get(key.text)
           \/ Del(key.text)
           \/ \E value \in OneValue, duration \in OrderDurations,
                 refreshInterval \in OrderIntervals :
                 Put(key.text, value, duration, refreshInterval)
           \/ \E ref \in Refs :
                 /\ TimerAt(ref).key = key.text
                 /\ ExpirationCallback(ref) \/ RefreshCallback(ref))
          => /\ EntryOf(untouched)' = EntryOf(untouched)
             /\ ScheduledFor(untouched.text, "timeout")' = ScheduledFor(untouched.text, "timeout")
             /\ ScheduledFor(untouched.text, "interval")' = ScheduledFor(untouched.text, "interval")]_vars

\* a key has just expired at an instant 2 or later while the other string key
\* is stored with the expiration and the refresh it was given earlier
W_C28 ==
    \E key \in StringKeys : \E untouched \in StringKeys \ {key} :
        /\ emitted = emit("expiry", key.text, "v1") /\ now >= 2
        /\ ~InKeys(key.text) /\ InKeys(untouched.text)
        /\ Pending(ExpirationOf(untouched.text)) /\ Pending(RefreshOf(untouched.text))

(***************************************************************************)
(* C31: the duration a record holds is the one the last put that supplied  *)
(* a duration gave: such a put records its duration, a put without a       *)
(* duration and a get leave the recorded duration as it was, and nothing   *)
(* else changes it while the key stays in the store.  With the flag on, a  *)
(* get at time t of a key whose record has a duration leaves one           *)
(* expiration scheduled for the key, at t plus the recorded duration, and  *)
(* an expiry is emitted for a key only at the deadline of the expiration   *)
(* its record holds.                                                       *)
(***************************************************************************)
C31_GetRestartsWithLastDuration ==
    [][\A key \in OneKey :
          /\ \A value \in Values, duration \in ValidArgs, refreshInterval \in ValidArgs :
                Put(key, value, duration, refreshInterval)
                => DurationOf(key)' = (IF duration # Undefined THEN duration
                                       ELSE DurationOf(key))
          /\ (InKeys(key) /\ InKeys(key)' /\ DurationOf(key)' # DurationOf(key))
             => /\ returned'.kind = "return" /\ returned'.value \in Values
                /\ ExpirationOf(key)'.callAt = now + DurationOf(key)'.n
          /\ (InKeys(key) /\ Get(key))
             => /\ DurationOf(key)' = DurationOf(key)
                /\ (_resetExpiryOnAccess /\ DurationOf(key) # Undefined)
                   => /\ OnlyExpiration(key)'
                      /\ ExpirationOf(key)'.callAt = now + DurationOf(key).n
                      /\ ExpirationOf(key)'.delay = DurationOf(key).n
          /\ (\E i \in 1..Len(emitted') :
                 emitted'[i].eventName = "expiry" /\ emitted'[i].key = key)
             => /\ Pending(ExpirationOf(key))
                /\ ExpirationOf(key).callAt = now]_vars

\* with the flag on, a call has just returned "v2" at an instant 2 or later,
\* and the expiration of the key, whose duration is 1, is pending for now + 1
\* while its refresh was scheduled earlier
W_C31 ==
    \E key \in OneKey :
        /\ _resetExpiryOnAccess /\ now >= 2
        /\ InKeys(key) /\ returned = Return("v2") /\ get(key) = "v2"
        /\ DurationOf(key) = Num(1)
        /\ OnlyExpiration(key) /\ ExpirationOf(key).callAt = now + 1
        /\ Pending(RefreshOf(key)) /\ ScheduledAt(RefreshOf(key)) < now

====
